---- MODULE Spec2Model ----
(***************************************************************************)
(* The Person table and the two reducers of test_module/src/lib.rs.        *)
(*                                                                         *)
(* The module declares one table (Person, primary key id, auto-increment)  *)
(* and two reducers, add_person and say_hello.  A reducer is invoked by a  *)
(* client, queued by the host, and run by the host as one transaction: the *)
(* table changes of a reducer that returns are committed together, those   *)
(* of a reducer that panics are discarded.  `insert` panics when the host  *)
(* refuses the row.                                                        *)
(***************************************************************************)
EXTENDS Naturals, Sequences, FiniteSets

(* ------------------------------ bounds -------------------------------- *)

\* Largest value of the id column (u64 in the source, a small range here).
MaxId == 3

\* Number of reducer invocations a behaviour issues.
MaxCalls == 4

\* Values of the String and u32 arguments.
Names == {"", "Ada"}
Ages == {0, 30}

\* What the host may do to an insertion: accept it, or refuse it for lack of
\* capacity or quota.
Faults == {"none", "capacity"}

(* ------------------------------ schema -------------------------------- *)

\* struct Person { id, name, age }
Person(id, name, age) == [id |-> id, name |-> name, age |-> age]

\* The invocations a client can issue: a reducer name and its arguments.
Invocation(reducer, args) == [reducer |-> reducer, args |-> args]

Invocations ==
    {Invocation("add_person", <<n, a>>) : n \in Names, a \in Ages}
        \cup {Invocation("say_hello", <<>>)}

VARIABLES
    person,     \* the rows of the Person table (committed state)
    sequence,   \* next value of the sequence behind the auto_inc column id
    log,        \* the messages the module has written to the host's log
    pending,    \* invocations issued and not yet run: Invocations -> count
    done        \* the invocations the host has run, in the order it ran them

vars == <<person, sequence, log, pending, done>>

\* The shape of the state: person holds Person rows (id: u64, name: String,
\* age: u32), log holds the module's messages.
TypeOK ==
    /\ person \subseteq [id : 0..MaxId, name : Names, age : Ages]
    /\ sequence \in 1..(MaxId + 1)
    /\ log \in Seq({[level |-> "info", msg |-> "Hello from SpacetimeDB!"]})
    /\ pending \in [Invocations -> 0..MaxCalls]
    /\ \A i \in 1..Len(done) : done[i].reducer \in {"add_person", "say_hello"}

(* ----------------------- #[auto_inc], #[primary_key] ------------------- *)

\* #[auto_inc] with the placeholder left in the row.
auto_inc_keep(seq, row) == [err |-> "none", row |-> row, seq |-> seq]

\* #[auto_inc] handing out the current value without advancing.
auto_inc_stale(seq, row) ==
    IF row.id # 0 THEN [err |-> "none", row |-> row, seq |-> seq]
    ELSE IF seq > MaxId THEN [err |-> "AutoIncOverflow", row |-> row, seq |-> seq]
    ELSE [err |-> "none", row |-> [row EXCEPT !.id = seq], seq |-> seq]

\* #[auto_inc] starting over at 1 once the column's range is used up.
auto_inc_wrap(seq, row) ==
    IF row.id # 0 THEN [err |-> "none", row |-> row, seq |-> seq]
    ELSE IF seq > MaxId THEN [err |-> "none", row |-> [row EXCEPT !.id = 1], seq |-> 2]
    ELSE [err |-> "none", row |-> [row EXCEPT !.id = seq], seq |-> seq + 1]

\* #[auto_inc] id: a row inserted with id = 0 gets the next value of the
\* sequence; the insertion fails when the column's range is used up.
auto_inc(seq, row) ==
    IF row.id # 0 THEN [err |-> "none", row |-> row, seq |-> seq]
    ELSE IF seq > MaxId THEN [err |-> "AutoIncOverflow", row |-> row, seq |-> seq]
    ELSE [err |-> "none", row |-> [row EXCEPT !.id = seq], seq |-> seq + 1]

\* A schema that also declares name unique.
primary_key_and_name(tbl, row) ==
    \A r \in tbl : r.id # row.id /\ r.name # row.name

\* #[primary_key] id: the row may be stored iff no stored row has its id.
primary_key(tbl, row) == \A r \in tbl : r.id # row.id

(* ------------------------------- insert -------------------------------- *)

\* A table with neither attribute on id: the row is stored as given.
insert_plain(tbl, seq, row, fault) ==
    IF fault # "none" THEN [err |-> fault, tbl |-> tbl, seq |-> seq, row |-> row]
    ELSE [err |-> "none", tbl |-> tbl \cup {row}, seq |-> seq, row |-> row]

\* An insert that replaces the table's contents by the new row.
insert_replace(tbl, seq, row, fault) ==
    LET a == auto_inc(seq, row) IN
    IF a.err # "none" THEN [err |-> a.err, tbl |-> tbl, seq |-> a.seq, row |-> row]
    ELSE IF fault # "none" THEN [err |-> fault, tbl |-> tbl, seq |-> a.seq, row |-> row]
    ELSE [err |-> "none", tbl |-> {a.row}, seq |-> a.seq, row |-> a.row]

\* ctx.db.person().insert(row): fill the auto_inc column, check the primary
\* key, store the row.  err # "none" is the error insert panics with.
insert(tbl, seq, row, fault) ==
    LET a == auto_inc(seq, row) IN
    IF a.err # "none"
    THEN [err |-> a.err, tbl |-> tbl, seq |-> a.seq, row |-> row]
    ELSE IF ~primary_key(tbl, a.row)
    THEN [err |-> "UniqueConstraintViolation", tbl |-> tbl, seq |-> a.seq, row |-> row]
    ELSE IF fault # "none"
    THEN [err |-> fault, tbl |-> tbl, seq |-> a.seq, row |-> row]
    ELSE [err |-> "none", tbl |-> tbl \cup {a.row}, seq |-> a.seq, row |-> a.row]

(* ------------------------------ reducers ------------------------------- *)

\* add_person with the result of the insertion dropped (try_insert, ignored).
add_person_ignoring(tbl, seq, name, age, fault) ==
    LET r == insert(tbl, seq, Person(0, name, age), fault) IN
    [panic |-> FALSE, err |-> r.err, tbl |-> r.tbl, seq |-> r.seq, row |-> r.row]

\* add_person refusing an empty name.
add_person_validating(tbl, seq, name, age, fault) ==
    LET r == insert(tbl, seq, Person(0, name, age), fault) IN
    IF name = ""
    THEN [panic |-> TRUE, err |-> "validation", tbl |-> tbl, seq |-> seq,
          row |-> Person(0, name, age)]
    ELSE [panic |-> r.err # "none", err |-> r.err, tbl |-> r.tbl, seq |-> r.seq,
          row |-> r.row]

\* pub fn add_person(ctx, name, age) { ctx.db.person().insert(Person { id: 0, name, age }); }
add_person(tbl, seq, name, age, fault) ==
    LET r == insert(tbl, seq, Person(0, name, age), fault) IN
    [panic |-> r.err # "none", err |-> r.err, tbl |-> r.tbl, seq |-> r.seq,
     row |-> r.row]

Hello == [level |-> "info", msg |-> "Hello from SpacetimeDB!"]

\* say_hello that also stores a row.
say_hello_inserting(tbl, seq) ==
    LET r == insert(tbl, seq, Person(0, "", 0), "none") IN
    [panic |-> r.err # "none", tbl |-> r.tbl, seq |-> r.seq, msgs |-> <<Hello>>]

\* say_hello that logs its message twice.
say_hello_twice(tbl, seq) ==
    [panic |-> FALSE, tbl |-> tbl, seq |-> seq, msgs |-> <<Hello, Hello>>]

\* pub fn say_hello(_ctx) { log::info!("Hello from SpacetimeDB!"); }
say_hello(tbl, seq) ==
    [panic |-> FALSE, tbl |-> tbl, seq |-> seq, msgs |-> <<Hello>>]

(* ------------------------------- state --------------------------------- *)

RECURSIVE SumOver(_, _)
SumOver(f, S) ==
    IF S = {} THEN 0
    ELSE LET x == CHOOSE y \in S : TRUE IN f[x] + SumOver(f, S \ {x})

\* Number of invocations issued so far.
Issued == SumOver(pending, Invocations) + Len(done)

Init ==
    /\ person = {}
    /\ sequence = 1
    /\ log = <<>>
    /\ pending = [i \in Invocations |-> 0]
    /\ done = <<>>

\* A client calls a reducer; the host queues the invocation.
CallReducer(inv) ==
    /\ Issued < MaxCalls
    /\ pending' = [pending EXCEPT ![inv] = @ + 1]
    /\ UNCHANGED <<person, sequence, log, done>>

\* The host runs one queued add_person as a transaction.  fault is what the
\* host does to the insertion; keepSeq says whether a discarded transaction
\* keeps the sequence values it drew.
RunAddPerson(name, age, fault, keepSeq) ==
    LET inv == Invocation("add_person", <<name, age>>)
        r == add_person(person, sequence, name, age, fault)
    IN
    /\ pending[inv] > 0
    /\ pending' = [pending EXCEPT ![inv] = @ - 1]
    /\ IF r.panic
       THEN /\ person' = person
            /\ sequence' = IF keepSeq THEN r.seq ELSE sequence
       ELSE /\ person' = r.tbl
            /\ sequence' = r.seq
    /\ done' = Append(done,
            [reducer |-> "add_person", name |-> name, age |-> age,
             outcome |-> IF r.panic THEN "failed" ELSE "committed",
             err |-> r.err,
             id |-> IF r.err = "none" THEN r.row.id ELSE 0])
    /\ UNCHANGED log

\* The host runs one queued say_hello as a transaction.
RunSayHello ==
    LET inv == Invocation("say_hello", <<>>)
        r == say_hello(person, sequence)
    IN
    /\ pending[inv] > 0
    /\ pending' = [pending EXCEPT ![inv] = @ - 1]
    /\ IF r.panic
       THEN UNCHANGED <<person, sequence>>
       ELSE person' = r.tbl /\ sequence' = r.seq
    /\ log' = log \o r.msgs
    /\ done' = Append(done,
            [reducer |-> "say_hello", name |-> "", age |-> 0,
             outcome |-> IF r.panic THEN "failed" ELSE "committed",
             err |-> "none", id |-> 0])

Next ==
    \/ \E inv \in Invocations : CallReducer(inv)
    \/ \E n \in Names, a \in Ages, f \in Faults, k \in BOOLEAN :
            RunAddPerson(n, a, f, k)
    \/ RunSayHello

Spec == Init /\ [][Next]_vars

(* --------------------------- the claims -------------------------------- *)

\* Positions of done by reducer and outcome.
Adds == {i \in 1..Len(done) : done[i].reducer = "add_person"}
CommittedAdds == {i \in Adds : done[i].outcome = "committed"}
Hellos == {i \in 1..Len(done) : done[i].reducer = "say_hello"}

\* The row a committed add_person entry stands for.
RowOf(e) == Person(e.id, e.name, e.age)

\* The failures the host raises on its own account: no capacity left, or
\* the id column's range used up.
HostFailures == {"capacity", "AutoIncOverflow"}

\* This step ran one invocation; Ran is its entry in done.
Stepped == Len(done') = Len(done) + 1
Ran == done'[Len(done')]

\* C1: the rows of the Person table have pairwise-distinct ids: two rows with
\* the same id are the same row.
C1_DistinctIds ==
    \A r1 \in person, r2 \in person : r1.id = r2.id => r1 = r2

C1_Witness ==
    /\ Cardinality(CommittedAdds) = 3
    /\ Cardinality(person) = 3

\* C2: a successful add_person adds exactly one row to the table, the row
\* count grows by exactly one, and the new row's id is the id of no row that
\* was in the table before the call.
C2_OneFreshRow ==
    [][(Stepped /\ Ran.reducer = "add_person" /\ Ran.outcome = "committed") =>
        /\ Cardinality(person') = Cardinality(person) + 1
        /\ \E row \in person' :
            /\ row \notin person
            /\ person' = person \cup {row}
            /\ row.id = Ran.id
            /\ \A r \in person : r.id # row.id
            /\ \A i \in 1..Len(done) : done[i].id # row.id]_vars

C2_Witness ==
    /\ Len(done) >= 2
    /\ done[Len(done)].reducer = "add_person"
    /\ done[Len(done)].outcome = "committed"
    /\ Cardinality(person) >= 2

\* C3: add_person applies no validation and no normalisation.  Whatever the
\* name and the age, the only failures are the host's own; when the host
\* raises none the call succeeds and the table holds a row with exactly the
\* given name and age.  add_person("", 0) is one such call.
C3_RowAsGiven ==
    \A i \in Adds :
        /\ done[i].err \in HostFailures \cup {"none"}
        /\ done[i].err = "none" =>
            /\ done[i].outcome = "committed"
            /\ RowOf(done[i]) \in person
            /\ \A r \in person :
                 r.id = done[i].id => r.name = done[i].name /\ r.age = done[i].age

C3_Witness ==
    \E i \in CommittedAdds :
        /\ done[i].name = "" /\ done[i].age = 0
        /\ \E r \in person : r.id = done[i].id /\ r.name = "" /\ r.age = 0

\* C4: a say_hello call leaves the Person table as it was: the set of rows
\* after the call is the set of rows before it.
C4_SayHelloFrame ==
    [][(Stepped /\ Ran.reducer = "say_hello") =>
        /\ person' = person
        /\ Cardinality(person') = Cardinality(person)]_vars

C4_Witness ==
    /\ Cardinality(Hellos) >= 2
    /\ done[Len(done)].reducer = "say_hello"
    /\ CommittedAdds # {}
    /\ person # {}

\* C5: no add_person fails on a uniqueness constraint, and two add_person
\* calls with the same name and age that both succeed leave two distinct
\* rows that differ in id only.
C5_DuplicatesPermitted ==
    /\ \A i \in Adds : done[i].err # "UniqueConstraintViolation"
    /\ \A i \in CommittedAdds, j \in CommittedAdds :
        (i # j /\ done[i].name = done[j].name /\ done[i].age = done[j].age) =>
            /\ RowOf(done[i]) \in person
            /\ RowOf(done[j]) \in person
            /\ RowOf(done[i]) # RowOf(done[j])
            /\ done[i].id # done[j].id

C5_Witness ==
    \E i \in CommittedAdds, j \in CommittedAdds :
        /\ i < j
        /\ done[i].name = done[j].name /\ done[i].age = done[j].age
        /\ {RowOf(done[i]), RowOf(done[j])} \subseteq person

\* C6: rows are immutable: every row in the table before a step is in the
\* table, with the same id, name and age, after it.
C6_RowsKept ==
    [][person \subseteq person']_vars

C6_Witness ==
    /\ Len(done) >= 3
    /\ 1 \in CommittedAdds
    /\ RowOf(done[1]) \in person
    /\ \E i \in Hellos : i > 1
    /\ \E j \in CommittedAdds : j > 1

\* C7: when the insertion of add_person fails, the call is reported as
\* failed and the table is as it was before the call.
C7_FailedInsert ==
    [][(Stepped /\ Ran.reducer = "add_person" /\ Ran.err # "none") =>
        /\ Ran.outcome = "failed"
        /\ person' = person]_vars

C7_Witness ==
    /\ person # {}
    /\ \E i \in Adds : done[i].err = "capacity" /\ done[i].outcome = "failed"
    /\ \E i \in Adds : done[i].err = "AutoIncOverflow" /\ done[i].outcome = "failed"

\* C8: ids are assigned by the host, increasing and never reused: no row
\* keeps the placeholder 0, the ids of the rows inserted grow with the order
\* of insertion, and every id in the table is below the next one the host
\* will assign.
C8_MonotonicIds ==
    /\ \A r \in person : r.id # 0 /\ r.id < sequence
    /\ \A i \in CommittedAdds : done[i].id # 0 /\ done[i].id < sequence
    /\ \A i \in CommittedAdds, j \in CommittedAdds :
        i < j => done[i].id < done[j].id

C8_Witness ==
    /\ Cardinality(CommittedAdds) >= 2
    /\ \E i \in Adds : done[i].outcome = "failed"
    /\ \E r \in person : r.id > Cardinality(person)

\* The table a serial run of the invocations of d, in the order of d, leaves.
RECURSIVE SerialTable(_)
SerialTable(d) ==
    IF d = <<>> THEN {}
    ELSE LET e == d[Len(d)]
             before == SerialTable(SubSeq(d, 1, Len(d) - 1))
         IN IF e.reducer = "add_person" /\ e.err = "none"
            THEN before \cup {RowOf(e)}
            ELSE before

C10_SayHelloSucceeds ==
    /\ \A i \in Hellos : done[i].outcome = "committed"
    /\ Len(log) = Cardinality(Hellos)
    /\ \A k \in 1..Len(log) : log[k] = Hello

C10_Witness ==
    /\ 1 \in Hellos
    /\ \E i \in Hellos : \E j \in CommittedAdds : j < i
    /\ Len(log) >= 2

====
